---------------------------- MODULE Spec2Model ----------------------------
(***************************************************************************)
(* Model of the CafeScraper Python actor demo.                             *)
(*                                                                         *)
(*   src/sdk.py   CafeSDK: one gRPC channel and three facades (Parameter,  *)
(*                Result, Log) over the stubs of sdk_pb2_grpc, plus the    *)
(*                module's own __main__ smoke script (lines 64-87).        *)
(*   src/main.py  run(): the task driver, and its top-level handler.       *)
(*                                                                         *)
(* Python values are tagged records; Python strings are TLA+ strings.      *)
(* json.loads / json.dumps / str / repr are computed on the text.          *)
(* Every stub call is answered by the host with an acknowledgment of any   *)
(* code, or fails with a transport error (grpc.RpcError).                  *)
(***************************************************************************)
EXTENDS Integers, Sequences, FiniteSets, TLC

\* Bounds of the input domains.
MaxUrl == 2
MaxCred == 2

-----------------------------------------------------------------------------
\* Python values

PyNone == [t |-> "None"]
PyStrV(s) == [t |-> "str", v |-> s]
\* v is "True" or "False"
PyBool(b) == [t |-> "bool", v |-> b]
PyInt(digits) == [t |-> "int", v |-> digits]
\* a dict is its items in insertion order, each <<key, value>>
PyDict(items) == [t |-> "dict", items |-> items]
PyList(elems) == [t |-> "list", elems |-> elems]
\* a local that no statement has assigned yet
Unbound == [t |-> "unbound"]

EmptyDict == PyDict(<<>>)

\* d[k] = v on a dict's items: an existing key keeps its position
RECURSIVE DictSet(_, _, _)
DictSet(items, k, v) ==
  IF items = <<>> THEN << <<k, v>> >>
  ELSE IF Head(items)[1] = k THEN << <<k, v>> >> \o Tail(items)
  ELSE << Head(items) >> \o DictSet(Tail(items), k, v)

\* dict.get(k): the value, None when the key is missing
RECURSIVE DictGet(_, _)
DictGet(items, k) ==
  IF items = <<>> THEN PyNone
  ELSE IF Head(items)[1] = k THEN Head(items)[2]
  ELSE DictGet(Tail(items), k)

\* exceptions; call tells one transport error from another: the position, on the
\* channel, of the call that failed (0 for what no call raised)
\* msg is str(e); the libraries' full wording (line and column of a decode
\* error, the status details of an RpcError) is cut to its first words
Exc(type, msg) == [type |-> type, msg |-> msg, call |-> 0]
NoExc == Exc("none", "")
RpcError(n) == [type |-> "RpcError", msg |-> "StatusCode.UNAVAILABLE", call |-> n]
JSONDecodeError == Exc("JSONDecodeError", "Expecting value")
AttributeError(tn) == Exc("AttributeError", "'" \o tn \o "' object has no attribute 'get'")
LookupFailure == Exc("Exception", "environment lookup failed")

\* str(e)
ExcStr(e) == e.msg

\* type(v).__name__
TypeName(v) ==
  CASE v.t = "None" -> "NoneType"
    [] v.t = "str" -> "str"
    [] v.t = "bool" -> "bool"
    [] v.t = "int" -> "int"
    [] v.t = "list" -> "list"
    [] OTHER -> "dict"

-----------------------------------------------------------------------------
\* json.loads, on the text (null, true, false, integers, strings without
\* escapes, arrays, objects; blanks between tokens)

Ch(s, i) == IF i >= 1 /\ i <= Len(s) THEN SubSeq(s, i, i) ELSE ""
Slice(s, i, j) == IF i >= 1 /\ j <= Len(s) /\ i <= j THEN SubSeq(s, i, j) ELSE ""
Digits == {"0", "1", "2", "3", "4", "5", "6", "7", "8", "9"}

Fail == [ok |-> FALSE, val |-> PyNone, next |-> 0]
Ok(v, n) == [ok |-> TRUE, val |-> v, next |-> n]

RECURSIVE SkipWs(_, _)
SkipWs(s, i) == IF Ch(s, i) = " " THEN SkipWs(s, i + 1) ELSE i

\* index of the next double quote at or after i, 0 when there is none
RECURSIVE FindQuote(_, _)
FindQuote(s, i) ==
  IF i > Len(s) THEN 0
  ELSE IF Ch(s, i) = "\"" THEN i
  ELSE FindQuote(s, i + 1)

\* s[i] is the opening quote
ParseString(s, i) ==
  LET j == FindQuote(s, i + 1) IN
  IF j = 0 THEN Fail ELSE Ok(PyStrV(Slice(s, i + 1, j - 1)), j + 1)

RECURSIVE DigitsEnd(_, _)
DigitsEnd(s, i) == IF Ch(s, i) \in Digits THEN DigitsEnd(s, i + 1) ELSE i

\* s[i] is a digit; a leading zero stands alone
ParseInt(s, i) ==
  LET j == IF Ch(s, i) = "0" THEN i + 1 ELSE DigitsEnd(s, i) IN
  Ok(PyInt(Slice(s, i, j - 1)), j)

RECURSIVE ParseValue(_, _)
RECURSIVE ParseMembers(_, _, _)
RECURSIVE ParseElements(_, _, _)

ParseValue(s, i) ==
  LET j == SkipWs(s, i)
      c == Ch(s, j)
  IN CASE c = "n" -> IF Slice(s, j, j + 3) = "null" THEN Ok(PyNone, j + 4) ELSE Fail
       [] c = "t" -> IF Slice(s, j, j + 3) = "true" THEN Ok(PyBool("True"), j + 4) ELSE Fail
       [] c = "f" -> IF Slice(s, j, j + 4) = "false" THEN Ok(PyBool("False"), j + 5) ELSE Fail
       [] c = "\"" -> ParseString(s, j)
       [] c \in Digits -> ParseInt(s, j)
       [] c = "{" ->
            LET k == SkipWs(s, j + 1) IN
            IF Ch(s, k) = "}" THEN Ok(EmptyDict, k + 1) ELSE ParseMembers(s, k, <<>>)
       [] c = "[" ->
            LET k == SkipWs(s, j + 1) IN
            IF Ch(s, k) = "]" THEN Ok(PyList(<<>>), k + 1) ELSE ParseElements(s, k, <<>>)
       [] OTHER -> Fail

\* i is where a key must start; items are the members read so far
ParseMembers(s, i, items) ==
  LET j == SkipWs(s, i) IN
  IF Ch(s, j) # "\"" THEN Fail
  ELSE LET key == ParseString(s, j) IN
       IF ~key.ok THEN Fail
       ELSE LET c == SkipWs(s, key.next) IN
            IF Ch(s, c) # ":" THEN Fail
            ELSE LET v == ParseValue(s, c + 1) IN
                 IF ~v.ok THEN Fail
                 ELSE LET e == SkipWs(s, v.next)
                          now == DictSet(items, key.val.v, v.val)
                      IN IF Ch(s, e) = "}" THEN Ok(PyDict(now), e + 1)
                         ELSE IF Ch(s, e) = "," THEN ParseMembers(s, e + 1, now)
                         ELSE Fail

\* i is where an element must start
ParseElements(s, i, items) ==
  LET v == ParseValue(s, i) IN
  IF ~v.ok THEN Fail
  ELSE LET e == SkipWs(s, v.next)
           now == Append(items, v.val)
       IN IF Ch(s, e) = "]" THEN Ok(PyList(now), e + 1)
          ELSE IF Ch(s, e) = "," THEN ParseElements(s, e + 1, now)
          ELSE Fail

\* json.loads(s): the value, or JSONDecodeError (also on trailing text)
json_loads(s) ==
  LET r == ParseValue(s, 1) IN
  IF r.ok /\ SkipWs(s, r.next) = Len(s) + 1
  THEN [raised |-> FALSE, val |-> r.val, exc |-> NoExc]
  ELSE [raised |-> TRUE, val |-> PyNone, exc |-> JSONDecodeError]


-----------------------------------------------------------------------------
\* json.dumps(obj, ensure_ascii=False): separators ", " and ": ", text passed
\* through as it is (the strings here hold no quote or backslash to escape)

RECURSIVE json_dumps(_)
RECURSIVE DumpItems(_)
RECURSIVE DumpElems(_)

DumpItems(items) ==
  IF items = <<>> THEN ""
  ELSE "\"" \o Head(items)[1] \o "\": " \o json_dumps(Head(items)[2])
       \o (IF Tail(items) = <<>> THEN "" ELSE ", " \o DumpItems(Tail(items)))

DumpElems(elems) ==
  IF elems = <<>> THEN ""
  ELSE json_dumps(Head(elems))
       \o (IF Tail(elems) = <<>> THEN "" ELSE ", " \o DumpElems(Tail(elems)))

json_dumps(v) ==
  CASE v.t = "None" -> "null"
    [] v.t = "bool" -> (IF v.v = "True" THEN "true" ELSE "false")
    [] v.t = "int" -> v.v
    [] v.t = "str" -> "\"" \o v.v \o "\""
    [] v.t = "list" -> "[" \o DumpElems(v.elems) \o "]"
    [] OTHER -> "{" \o DumpItems(v.items) \o "}"

\* repr(v) and str(v), as the f-strings of the driver format their fields

RECURSIVE HasChar(_, _, _)
HasChar(s, c, i) ==
  IF i > Len(s) THEN FALSE ELSE Ch(s, i) = c \/ HasChar(s, c, i + 1)

RECURSIVE PyRepr(_)
RECURSIVE ReprItems(_)
RECURSIVE ReprElems(_)

ReprStr(s) == IF HasChar(s, "'", 1) THEN "\"" \o s \o "\"" ELSE "'" \o s \o "'"

ReprItems(items) ==
  IF items = <<>> THEN ""
  ELSE ReprStr(Head(items)[1]) \o ": " \o PyRepr(Head(items)[2])
       \o (IF Tail(items) = <<>> THEN "" ELSE ", " \o ReprItems(Tail(items)))

ReprElems(elems) ==
  IF elems = <<>> THEN ""
  ELSE PyRepr(Head(elems))
       \o (IF Tail(elems) = <<>> THEN "" ELSE ", " \o ReprElems(Tail(elems)))

PyRepr(v) ==
  CASE v.t = "None" -> "None"
    [] v.t = "bool" -> v.v
    [] v.t = "int" -> v.v
    [] v.t = "str" -> ReprStr(v.v)
    [] v.t = "list" -> "[" \o ReprElems(v.elems) \o "]"
    [] OTHER -> "{" \o ReprItems(v.items) \o "}"

PyStr(v) == IF v.t = "str" THEN v.v ELSE PyRepr(v)

\* truthiness, as `if x` tests it
Truthy(v) ==
  CASE v.t = "None" -> FALSE
    [] v.t = "bool" -> v.v = "True"
    [] v.t = "int" -> v.v # "0"
    [] v.t = "str" -> v.v # ""
    [] v.t = "list" -> v.elems # <<>>
    [] OTHER -> v.items # <<>>

-----------------------------------------------------------------------------
\* The host, behind the channel at 127.0.0.1:20086

\* acknowledgment codes the host may answer with: 0 is success
MaxCode == 1
Codes == 0..MaxCode

Urls == {"http://example.com/" \o ToString(i) : i \in 1..MaxUrl}
Creds == {"user" \o ToString(i) \o ":secret" : i \in 1..MaxCred}

\* the JSON text the host attached to the task
JsonInputs ==
  {"", "{}", "not json", "null", "[]", "{\"name\": \"x\"}", " {\"url\":null }",
   "{\"url\": \"http://example.com/1\""}
  \cup {"{\"url\": \"" \o u \o "\"}" : u \in Urls}

\* the value of PROXY_AUTH in the process environment: None when unset
EnvValues == {PyNone, PyStrV("")} \cup {PyStrV(c) : c \in Creds}

\* protobuf messages (sdk_pb2); a field that is not set holds its default
Msg(type, jsonString, headers, log) ==
  [type |-> type, jsonString |-> jsonString, headers |-> headers, log |-> log]
Empty == Msg("Empty", "", <<>>, "")
Data(jsonString) == Msg("Data", jsonString, <<>>, "")
TableHeader(headers) == Msg("TableHeader", "", headers, "")
LogBody(log) == Msg("LogBody", "", <<>>, log)
Response(code, message) == [t |-> "Response", code |-> code, message |-> message]
JSONString(jsonString) == [t |-> "JSONString", jsonString |-> jsonString]
NoReply == [t |-> "none"]

\* what the host and the channel do with one call: a reply, or a transport error
TransportError == [kind |-> "error", reply |-> NoReply]
AckOutcomes ==
  {[kind |-> "reply", reply |-> Response(c, IF c = 0 THEN "ok" ELSE "rejected")] : c \in Codes}
  \cup {TransportError}
ParamOutcomes(js) == {[kind |-> "reply", reply |-> JSONString(js)], TransportError}

\* what a call gave its caller
Returned(log, val) == [rpc |-> log, raised |-> FALSE, val |-> val, exc |-> NoExc]
Raising(log, exc) == [rpc |-> log, raised |-> TRUE, val |-> PyNone, exc |-> exc]

-----------------------------------------------------------------------------
\* CafeSDK (src/sdk.py). Each operator takes the calls the channel has carried
\* so far and the host's outcome o for the call it makes.

\* self.stub.<method>(request): one call on the channel
Stub(log, service, method, request, o) ==
  LET sent == Append(log, [service |-> service, method |-> method,
                           request |-> request, outcome |-> o.kind])
  IN IF o.kind = "error" THEN Raising(sent, RpcError(Len(sent))) ELSE Returned(sent, o.reply)

get_input_json_str(log, o) ==
  LET resp == Stub(log, "Parameter", "GetInputJSONString", Empty, o) IN
  IF resp.raised THEN resp ELSE Returned(resp.rpc, PyStrV(resp.val.jsonString))

\* get_input_json_dict that swallows the decode error
get_input_json_dict_swallow(log, o) ==
  LET json_str == get_input_json_str(log, o) IN
  IF json_str.raised THEN json_str
  ELSE IF Truthy(json_str.val)
       THEN LET parsed == json_loads(json_str.val.v) IN
            IF parsed.raised THEN Returned(json_str.rpc, EmptyDict)
            ELSE Returned(json_str.rpc, parsed.val)
       ELSE Returned(json_str.rpc, EmptyDict)

get_input_json_dict(log, o) ==
  LET json_str == get_input_json_str(log, o) IN
  IF json_str.raised THEN json_str
  ELSE IF Truthy(json_str.val)
       THEN LET parsed == json_loads(json_str.val.v) IN
            IF parsed.raised THEN Raising(json_str.rpc, parsed.exc)
            ELSE Returned(json_str.rpc, parsed.val)
       ELSE Returned(json_str.rpc, EmptyDict)

\* the repeated field of sdk_pb2.TableHeader, from the list of dicts
RECURSIVE HeaderFields(_)
HeaderFields(elems) ==
  IF elems = <<>> THEN <<>>
  ELSE << [label |-> DictGet(Head(elems).items, "label").v,
           key |-> DictGet(Head(elems).items, "key").v,
           format |-> DictGet(Head(elems).items, "format").v] >>
       \o HeaderFields(Tail(elems))

set_table_header(log, headers, o) ==
  Stub(log, "Result", "SetTableHeader", TableHeader(HeaderFields(headers.elems)), o)

\* push_data that sends again when the host answers with a non-success code
push_data_retry(log, dict_obj, o) ==
  LET data == Data(json_dumps(dict_obj))
      first == Stub(log, "Result", "PushData", data, o)
  IN IF ~first.raised /\ first.val.code # 0
     THEN Stub(first.rpc, "Result", "PushData", data, o)
     ELSE first

push_data(log, dict_obj, o) ==
  LET json_str == json_dumps(dict_obj)
      data == Data(json_str)
  IN Stub(log, "Result", "PushData", data, o)

\* error() that drops the message instead of sending it
error_dropped(log, msg, o) == Returned(log, Response(0, ""))

debug(log, msg, o) == Stub(log, "Log", "Debug", LogBody(msg), o)
info(log, msg, o) == Stub(log, "Log", "Info", LogBody(msg), o)
warn(log, msg, o) == Stub(log, "Log", "Warn", LogBody(msg), o)
error(log, msg, o) == Stub(log, "Log", "Error", LogBody(msg), o)

-----------------------------------------------------------------------------
\* State

VARIABLES
  prog,             \* the script run as __main__: "main" (main.py) or "sdk" (sdk.py)
  pc,               \* the line about to run; "done" and "raised" once the script ended
  jsonInput,        \* host: the JSON text attached to the task
  envAuth,          \* environment: PROXY_AUTH
  envFails,         \* environment: the lookup of line 19 raises
  rpc,              \* the calls the channel has carried, in order
  calls,            \* the facade methods the script has invoked, in order
  lastReply,        \* the host's outcome for the latest call
  ret,              \* what the latest facade invocation gave the script
  input_json_dict, proxyAuth, proxy_url, url, result, res,   \* locals of run()
  e,                \* the exception bound by the except clause that is running
  raisedExc,        \* the exception that left the script
  input_json_str, input_dict, stdout                         \* sdk.py __main__

host == <<prog, jsonInput, envAuth, envFails>>
wire == <<rpc, calls, lastReply, ret>>
mainLocals == <<input_json_dict, proxyAuth, proxy_url, url, result>>
sdkLocals == <<input_json_str, input_dict, stdout>>
vars == <<host, wire, mainLocals, res, e, raisedExc, sdkLocals, pc>>

RaisedRet(exc) == [t |-> "raised", exc |-> exc]

Init ==
  /\ prog \in {"main", "sdk"}
  /\ pc = IF prog = "main" THEN "m12" ELSE "s65"
  /\ jsonInput \in JsonInputs
  /\ envAuth \in (IF prog = "main" THEN EnvValues ELSE {PyNone})
  /\ envFails \in (IF prog = "main" THEN BOOLEAN ELSE {FALSE})
  /\ rpc = <<>>
  /\ calls = <<>>
  /\ lastReply = [kind |-> "none", reply |-> NoReply]
  /\ ret = Unbound
  /\ input_json_dict = Unbound
  /\ proxyAuth = Unbound
  /\ proxy_url = Unbound
  /\ url = Unbound
  /\ result = Unbound
  /\ res = Unbound
  /\ e = NoExc
  /\ raisedExc = NoExc
  /\ input_json_str = Unbound
  /\ input_dict = Unbound
  /\ stdout = <<>>

\* the script invokes facade method fn with arg; r is what the facade did
Invoke(fn, arg, r, o) ==
  /\ rpc' = r.rpc
  /\ calls' = Append(calls, [fn |-> fn, arg |-> arg, raised |-> r.raised])
  /\ lastReply' = o
  /\ ret' = IF r.raised THEN RaisedRet(r.exc) ELSE r.val

-----------------------------------------------------------------------------
\* run() of src/main.py

proxyDomain == "proxy-inner.cafescraper.com:6000"

\* line 26 without the test for a missing credential
ProxyUrl_unguarded(auth) ==
  PyStrV("socks5://" \o PyStr(auth) \o "@" \o proxyDomain)

\* line 26
ProxyUrl(auth) ==
  IF Truthy(auth) THEN PyStrV("socks5://" \o PyStr(auth) \o "@" \o proxyDomain) ELSE PyNone

\* lines 34-42 with the url left out
SuccessResult_no_url(u) ==
  PyDict(<< <<"url", PyNone>>, <<"status", PyStrV("success")>>,
            <<"data", PyDict(<< <<"title", PyStrV("Sample title")>>,
                                <<"content", PyStrV("Sample content")>> >>)>> >>)

\* lines 34-42
SuccessResult(u) ==
  PyDict(<< <<"url", u>>, <<"status", PyStrV("success")>>,
            <<"data", PyDict(<< <<"title", PyStrV("Sample title")>>,
                                <<"content", PyStrV("Sample content")>> >>)>> >>)

\* lines 49-56
Headers ==
  PyList(<< PyDict(<< <<"label", PyStrV("URL")>>, <<"key", PyStrV("url")>>,
                      <<"format", PyStrV("text")>> >>) >>)

\* lines 63-67 with another error_code
ErrorResult_wrong_code(exc) ==
  PyDict(<< <<"error", PyStrV(ExcStr(exc))>>, <<"error_code", PyStrV("200")>>,
            <<"status", PyStrV("failed")>> >>)

\* lines 63-67
ErrorResult(exc) ==
  PyDict(<< <<"error", PyStrV(ExcStr(exc))>>, <<"error_code", PyStrV("500")>>,
            <<"status", PyStrV("failed")>> >>)

\* a statement of the outer try block that only logs: on to next, or to the
\* handler of line 61
LogStep(at, fn, r, msg, o, next) ==
  /\ pc = at
  /\ Invoke(fn, PyStrV(msg), r, o)
  /\ IF r.raised THEN pc' = "m62" /\ e' = r.exc ELSE pc' = next /\ e' = e

\* 12: input_json_dict = CafeSDK.Parameter.get_input_json_dict()
m12 ==
  /\ pc = "m12"
  /\ \E o \in ParamOutcomes(jsonInput) :
       LET r == get_input_json_dict(rpc, o) IN
       /\ Invoke("Parameter.get_input_json_dict", PyNone, r, o)
       /\ IF r.raised
          THEN pc' = "m62" /\ e' = r.exc /\ UNCHANGED input_json_dict
          ELSE pc' = "m13" /\ input_json_dict' = r.val /\ UNCHANGED e
  /\ UNCHANGED <<host, proxyAuth, proxy_url, url, result, res, raisedExc, sdkLocals>>

\* 13: CafeSDK.Log.debug(f"params: {input_json_dict}")
m13 ==
  /\ \E o \in AckOutcomes :
       LET msg == "params: " \o PyStr(input_json_dict) IN
       LogStep("m13", "Log.debug", debug(rpc, msg, o), msg, o, "m19")
  /\ UNCHANGED <<host, mainLocals, res, raisedExc, sdkLocals>>

\* 19: proxyAuth = os.environ.get("PROXY_AUTH"), inside the try of line 18
m19 ==
  /\ pc = "m19"
  /\ IF envFails
     THEN pc' = "m22" /\ e' = LookupFailure /\ UNCHANGED proxyAuth
     ELSE pc' = "m20" /\ proxyAuth' = envAuth /\ UNCHANGED e
  /\ UNCHANGED <<host, wire, input_json_dict, proxy_url, url, result, res, raisedExc, sdkLocals>>

\* 20: CafeSDK.Log.info(...), inside the try of line 18: line 21 catches
m20 ==
  /\ pc = "m20"
  /\ \E o \in AckOutcomes :
       LET msg == "Proxy authentication information: " \o PyStr(proxyAuth)
           r == info(rpc, msg, o)
       IN /\ Invoke("Log.info", PyStrV(msg), r, o)
          /\ IF r.raised THEN pc' = "m22" /\ e' = r.exc ELSE pc' = "m26" /\ e' = e
  /\ UNCHANGED <<host, mainLocals, res, raisedExc, sdkLocals>>

\* the handler of line 21 re-raising instead of going on
m22_abort ==
  /\ pc = "m22"
  /\ \E o \in AckOutcomes :
       LET msg == "Failed to retrieve proxy authentication information: " \o ExcStr(e)
           r == error(rpc, msg, o)
       IN /\ Invoke("Log.error", PyStrV(msg), r, o)
          /\ pc' = "m62"
          /\ e' = IF r.raised THEN r.exc ELSE e
          /\ UNCHANGED proxyAuth
  /\ UNCHANGED <<host, input_json_dict, proxy_url, url, result, res, raisedExc, sdkLocals>>

\* 22-23: the handler of line 21: CafeSDK.Log.error(...); proxyAuth = None
m22 ==
  /\ pc = "m22"
  /\ \E o \in AckOutcomes :
       LET msg == "Failed to retrieve proxy authentication information: " \o ExcStr(e)
           r == error(rpc, msg, o)
       IN /\ Invoke("Log.error", PyStrV(msg), r, o)
          /\ IF r.raised
             THEN pc' = "m62" /\ e' = r.exc /\ UNCHANGED proxyAuth
             ELSE pc' = "m26" /\ e' = NoExc /\ proxyAuth' = PyNone
  /\ UNCHANGED <<host, input_json_dict, proxy_url, url, result, res, raisedExc, sdkLocals>>

\* 26-27: proxy_url = ...; CafeSDK.Log.info(f"Proxy address: {proxy_url}")
m26 ==
  /\ pc = "m26"
  /\ proxy_url' = ProxyUrl(proxyAuth)
  /\ \E o \in AckOutcomes :
       LET msg == "Proxy address: " \o PyStr(ProxyUrl(proxyAuth)) IN
       LogStep("m26", "Log.info", info(rpc, msg, o), msg, o, "m30")
  /\ UNCHANGED <<host, input_json_dict, proxyAuth, url, result, res, raisedExc, sdkLocals>>

\* 30: url = input_json_dict.get('url')
m30 ==
  /\ pc = "m30"
  /\ IF input_json_dict.t = "dict"
     THEN pc' = "m31" /\ url' = DictGet(input_json_dict.items, "url") /\ UNCHANGED e
     ELSE pc' = "m62" /\ e' = AttributeError(TypeName(input_json_dict)) /\ UNCHANGED url
  /\ UNCHANGED <<host, wire, input_json_dict, proxyAuth, proxy_url, result, res, raisedExc, sdkLocals>>

\* 31: CafeSDK.Log.info(f"start deal URL: {url}")
m31 ==
  /\ \E o \in AckOutcomes :
       LET msg == "start deal URL: " \o PyStr(url) IN
       LogStep("m31", "Log.info", info(rpc, msg, o), msg, o, "m34")
  /\ UNCHANGED <<host, mainLocals, res, raisedExc, sdkLocals>>

\* 34-45: result = {...}; CafeSDK.Log.info(f"Processing result: {result}")
m34 ==
  /\ pc = "m34"
  /\ result' = SuccessResult(url)
  /\ \E o \in AckOutcomes :
       LET msg == "Processing result: " \o PyStr(SuccessResult(url)) IN
       LogStep("m34", "Log.info", info(rpc, msg, o), msg, o, "m46")
  /\ UNCHANGED <<host, input_json_dict, proxyAuth, proxy_url, url, res, raisedExc, sdkLocals>>

\* line 46 going on to the headers although the push raised
m46_continue ==
  /\ pc = "m46"
  /\ \E o \in AckOutcomes :
       LET r == push_data(rpc, result, o) IN
       /\ Invoke("Result.push_data", result, r, o)
       /\ pc' = "m57" /\ e' = e
  /\ UNCHANGED <<host, mainLocals, res, raisedExc, sdkLocals>>

\* 46: CafeSDK.Result.push_data(result)
m46 ==
  /\ pc = "m46"
  /\ \E o \in AckOutcomes :
       LET r == push_data(rpc, result, o) IN
       /\ Invoke("Result.push_data", result, r, o)
       /\ IF r.raised THEN pc' = "m62" /\ e' = r.exc ELSE pc' = "m57" /\ e' = e
  /\ UNCHANGED <<host, mainLocals, res, raisedExc, sdkLocals>>

\* 49-57: headers = [...]; res = CafeSDK.Result.set_table_header(headers)
m57 ==
  /\ pc = "m57"
  /\ \E o \in AckOutcomes :
       LET r == set_table_header(rpc, Headers, o) IN
       /\ Invoke("Result.set_table_header", Headers, r, o)
       /\ IF r.raised
          THEN pc' = "m62" /\ e' = r.exc /\ UNCHANGED res
          ELSE pc' = "m59" /\ e' = e /\ res' = r.val
  /\ UNCHANGED <<host, mainLocals, raisedExc, sdkLocals>>

\* line 59 outside the try block: its failure leaves run() unhandled
m59_unhandled ==
  /\ pc = "m59"
  /\ \E o \in AckOutcomes :
       LET msg == "Script execution completed"
           r == info(rpc, msg, o)
       IN /\ Invoke("Log.info", PyStrV(msg), r, o)
          /\ IF r.raised
             THEN pc' = "raised" /\ raisedExc' = r.exc
             ELSE pc' = "done" /\ raisedExc' = raisedExc
  /\ UNCHANGED <<host, mainLocals, res, e, sdkLocals>>

\* 59: CafeSDK.Log.info("Script execution completed"); run() returns
m59 ==
  /\ \E o \in AckOutcomes :
       LET msg == "Script execution completed" IN
       LogStep("m59", "Log.info", info(rpc, msg, o), msg, o, "done")
  /\ UNCHANGED <<host, mainLocals, res, raisedExc, sdkLocals>>

\* 62: the handler of line 61: CafeSDK.Log.error(f"Script execution error: {e}")
m62 ==
  /\ pc = "m62"
  /\ \E o \in AckOutcomes :
       LET msg == "Script execution error: " \o ExcStr(e)
           r == error(rpc, msg, o)
       IN /\ Invoke("Log.error", PyStrV(msg), r, o)
          /\ IF r.raised
             THEN pc' = "raised" /\ raisedExc' = r.exc
             ELSE pc' = "m68" /\ raisedExc' = raisedExc
  /\ UNCHANGED <<host, mainLocals, res, e, sdkLocals>>

\* 63-69: error_result = {...}; CafeSDK.Result.push_data(error_result); raise
m68 ==
  /\ pc = "m68"
  /\ \E o \in AckOutcomes :
       LET error_result == ErrorResult(e)
           r == push_data(rpc, error_result, o)
       IN /\ Invoke("Result.push_data", error_result, r, o)
          /\ pc' = "raised"
          /\ raisedExc' = IF r.raised THEN r.exc ELSE e
  /\ UNCHANGED <<host, mainLocals, res, e, sdkLocals>>

Run == m12 \/ m13 \/ m19 \/ m20 \/ m22 \/ m26 \/ m30 \/ m31 \/ m34 \/ m46 \/ m57
         \/ m59 \/ m62 \/ m68

-----------------------------------------------------------------------------
\* the __main__ block of src/sdk.py (lines 64-87): no handler, so whatever a
\* call raises ends the script

\* print("<label>", res.code, res.message)
AckLine(label, ack) == label \o " " \o ToString(ack.code) \o " " \o ack.message

\* a statement that logs and prints the acknowledgment
SdkLog(at, fn, r, msg, o, label, next) ==
  /\ pc = at
  /\ Invoke(fn, PyStrV(msg), r, o)
  /\ IF r.raised
     THEN pc' = "raised" /\ raisedExc' = r.exc /\ UNCHANGED <<res, stdout>>
     ELSE /\ pc' = next
          /\ res' = r.val
          /\ stdout' = Append(stdout, AckLine(label, r.val))
          /\ UNCHANGED raisedExc
  /\ UNCHANGED <<host, mainLocals, e, input_json_str, input_dict>>

\* 65-66: input_json_str = CafeSDK.Parameter.get_input_json_str(); print
s65 ==
  /\ pc = "s65"
  /\ \E o \in ParamOutcomes(jsonInput) :
       LET r == get_input_json_str(rpc, o) IN
       /\ Invoke("Parameter.get_input_json_str", PyNone, r, o)
       /\ IF r.raised
          THEN pc' = "raised" /\ raisedExc' = r.exc /\ UNCHANGED <<input_json_str, stdout>>
          ELSE /\ pc' = "s68"
               /\ input_json_str' = r.val
               /\ stdout' = Append(stdout, "get_input_json_str res: " \o PyStr(r.val))
               /\ UNCHANGED raisedExc
  /\ UNCHANGED <<host, mainLocals, res, e, input_dict>>

\* 68-69: input_dict = CafeSDK.Parameter.get_input_json_dict(); print
s68 ==
  /\ pc = "s68"
  /\ \E o \in ParamOutcomes(jsonInput) :
       LET r == get_input_json_dict(rpc, o) IN
       /\ Invoke("Parameter.get_input_json_dict", PyNone, r, o)
       /\ IF r.raised
          THEN pc' = "raised" /\ raisedExc' = r.exc /\ UNCHANGED <<input_dict, stdout>>
          ELSE /\ pc' = "s71"
               /\ input_dict' = r.val
               /\ stdout' = Append(stdout, "get_input_json_dict res: " \o PyStr(r.val))
               /\ UNCHANGED raisedExc
  /\ UNCHANGED <<host, mainLocals, res, e, input_json_str>>

\* 71-72: res = CafeSDK.Result.push_data({"py-data-key": "py-data-value"}); print
s71 ==
  /\ pc = "s71"
  /\ \E o \in AckOutcomes :
       LET dict_obj == PyDict(<< <<"py-data-key", PyStrV("py-data-value")>> >>)
           r == push_data(rpc, dict_obj, o)
       IN /\ Invoke("Result.push_data", dict_obj, r, o)
          /\ IF r.raised
             THEN pc' = "raised" /\ raisedExc' = r.exc /\ UNCHANGED <<res, stdout>>
             ELSE /\ pc' = "s74"
                  /\ res' = r.val
                  /\ stdout' = Append(stdout, AckLine("push_data resp:", r.val))
                  /\ UNCHANGED raisedExc
  /\ UNCHANGED <<host, mainLocals, e, input_json_str, input_dict>>

\* 74-75: res = CafeSDK.Log.debug("py-debug..."); print
s74 ==
  \E o \in AckOutcomes :
    LET msg == "py-debug..." IN
    SdkLog("s74", "Log.debug", debug(rpc, msg, o), msg, o, "Log.debug resp:", "s77")

\* 77-78: res = CafeSDK.Log.debug(f"input_dict={input_dict}"); print
s77 ==
  /\ pc = "s77"
  /\ \E o \in AckOutcomes :
       LET msg == "input_dict=" \o PyStr(input_dict) IN
       SdkLog("s77", "Log.debug", debug(rpc, msg, o), msg, o, "Log.debug resp:", "s80")

\* 80-81: res = CafeSDK.Log.info("py-info..."); print
s80 ==
  \E o \in AckOutcomes :
    LET msg == "py-info..." IN
    SdkLog("s80", "Log.info", info(rpc, msg, o), msg, o, "Log.info resp:", "s83")

\* 83-84: res = CafeSDK.Log.warn("py-warn..."); print (the label reads Log.info)
s83 ==
  \E o \in AckOutcomes :
    LET msg == "py-warn..." IN
    SdkLog("s83", "Log.warn", warn(rpc, msg, o), msg, o, "Log.info resp:", "s86")

\* 86-87: res = CafeSDK.Log.error("py-error..."); print; the script ends
s86 ==
  \E o \in AckOutcomes :
    LET msg == "py-error..." IN
    SdkLog("s86", "Log.error", error(rpc, msg, o), msg, o, "Log.info resp:", "done")

SdkMain == s65 \/ s68 \/ s71 \/ s74 \/ s77 \/ s80 \/ s83 \/ s86

-----------------------------------------------------------------------------
Next == Run \/ SdkMain

Spec == Init /\ [][Next]_vars

-----------------------------------------------------------------------------
\* Reading the history

Last(seq) == seq[Len(seq)]
HasPrefix(s, p) == Len(s) >= Len(p) /\ Slice(s, 1, Len(p)) = p
CallIdx(fn) == {i \in 1..Len(calls) : calls[i].fn = fn}
RpcIdx(method) == {i \in 1..Len(rpc) : rpc[i].method = method}
Terminated == pc \in {"done", "raised"}

\* the payloads, as the specification writes them
FailurePayload(x) ==
  PyDict(<< <<"error", PyStrV(x.msg)>>, <<"error_code", PyStrV("500")>>,
            <<"status", PyStrV("failed")>> >>)
SuccessPayload(u) ==
  PyDict(<< <<"url", u>>, <<"status", PyStrV("success")>>,
            <<"data", PyDict(<< <<"title", PyStrV("Sample title")>>,
                                <<"content", PyStrV("Sample content")>> >>)>> >>)
StatusOf(d) == IF d.t = "dict" THEN DictGet(d.items, "status") ELSE PyNone
UrlInput(u) == "{\"url\": \"" \o u \o "\"}"

PushIdx == CallIdx("Result.push_data")
FailedPushIdx == {i \in PushIdx : StatusOf(calls[i].arg) = PyStrV("failed")}
SuccessPushIdx == {i \in PushIdx : StatusOf(calls[i].arg) = PyStrV("success")}
LogErrorIdx == CallIdx("Log.error")
\* the Log.error of the top-level handler (line 62), of the step-2 handler (line 22)
TopErrorIdx == {i \in LogErrorIdx : HasPrefix(calls[i].arg.v, "Script execution error: ")}
InnerErrorIdx ==
  {i \in LogErrorIdx :
     HasPrefix(calls[i].arg.v, "Failed to retrieve proxy authentication information: ")}
\* run() ended with an exception
RunFailed == prog = "main" /\ pc = "raised"

-----------------------------------------------------------------------------
C2_Original ==
  RunFailed =>
    /\ \E i \in RpcIdx("Error") : rpc[i].outcome = "reply"
    /\ \E i \in RpcIdx("PushData") :
         /\ rpc[i].outcome = "reply"
         /\ StatusOf(json_loads(rpc[i].request.jsonString).val) = PyStrV("failed")

\* C2 (amended): a run() that ends with an exception has sent the handler's
\* Log.Error call; the failure payload was sent as the call after it exactly
\* when that Log.Error was answered; both were answered exactly when the
\* exception that leaves run() is the one the handler caught.
C2_Attempted ==
  RunFailed =>
    \E i \in RpcIdx("Error") :
      /\ rpc[i].request.log = "Script execution error: " \o e.msg
      /\ IF rpc[i].outcome = "reply"
         THEN /\ Len(rpc) = i + 1
              /\ rpc[i + 1].method = "PushData"
              /\ json_loads(rpc[i + 1].request.jsonString).val = FailurePayload(e)
              /\ (rpc[i + 1].outcome = "reply") <=> (raisedExc = e)
         ELSE /\ Len(rpc) = i
              /\ raisedExc # e

\* C2 witness: a transport error was caught, and both handler calls were answered
C2_Witness ==
  /\ RunFailed
  /\ e.type = "RpcError"
  /\ raisedExc = e
  /\ Len(rpc) >= 2
  /\ rpc[Len(rpc) - 1].method = "Error" /\ rpc[Len(rpc) - 1].outcome = "reply"
  /\ Last(rpc).method = "PushData" /\ Last(rpc).outcome = "reply"

\* no statement of run() has raised so far
NoRaise ==
  /\ \A i \in 1..Len(calls) : ~calls[i].raised
  /\ e.type = "none"
  /\ pc \notin {"m22", "m62", "m68", "raised"}
  /\ InnerErrorIdx = {}

\* C3: in a run() where nothing raises, with an input mapping whose url is u,
\* push_data is called at most once, with {url: u, status: "success", data:
\* {...}} (on the wire: that text), set_table_header at most once and only
\* after the push, and no failure payload is pushed; when run() has returned,
\* each was called exactly once.
C3_SuccessFlow ==
  \A u \in Urls :
    (prog = "main" /\ NoRaise /\ jsonInput = UrlInput(u)) =>
      /\ FailedPushIdx = {}
      /\ Cardinality(PushIdx) <= 1
      /\ Cardinality(CallIdx("Result.set_table_header")) <= 1
      /\ \A i \in PushIdx :
           /\ calls[i].arg = SuccessPayload(PyStrV(u))
           /\ rpc[i].request.jsonString =
                "{\"url\": \"" \o u \o "\", \"status\": \"success\", \"data\": "
                \o "{\"title\": \"Sample title\", \"content\": \"Sample content\"}}"
      /\ \A h \in CallIdx("Result.set_table_header") : PushIdx = {h - 1}
      /\ pc \in {"m57", "m59", "done"} => Cardinality(PushIdx) = 1
      /\ pc \in {"m59", "done"} => Cardinality(CallIdx("Result.set_table_header")) = 1
      /\ Terminated => pc = "done"

\* C3 witness: run() returned, nothing raised, the url was http://example.com/1
C3_Witness ==
  /\ prog = "main" /\ pc = "done" /\ NoRaise
  /\ jsonInput = UrlInput("http://example.com/1")
  /\ Cardinality(PushIdx) = 1
  /\ Cardinality(CallIdx("Result.set_table_header")) = 1

\* the step-2 try block (lines 18-20) was left through its handler
Step2Handled == InnerErrorIdx # {} /\ \A i \in InnerErrorIdx : ~calls[i].raised
ProxyUrlText(c) == "socks5://" \o c \o "@proxy-inner.cafescraper.com:6000"

\* C4 (as stated): once built, the proxy URL is socks5://{c}@proxy-inner.
\* cafescraper.com:6000 for every credential string c that step 2 obtained,
\* and None exactly when the credential is None.
C4_Original ==
  (prog = "main" /\ proxy_url # Unbound) =>
    /\ proxyAuth.t = "str" => proxy_url = PyStrV(ProxyUrlText(proxyAuth.v))
    /\ (proxy_url = PyNone) <=> (proxyAuth = PyNone)

\* C4 (amended): once built, the proxy URL is socks5://{c}@proxy-inner.
\* cafescraper.com:6000 for every non-empty credential string c that step 2
\* obtained from PROXY_AUTH, and None exactly when the credential is None or
\* the empty string: PROXY_AUTH unset, PROXY_AUTH empty, or the step-2 handler
\* ran and reset the credential.
C4_ProxyUrl ==
  (prog = "main" /\ proxy_url # Unbound) =>
    /\ \A c \in Creds :
         (envAuth = PyStrV(c) /\ ~Step2Handled) => proxy_url = PyStrV(ProxyUrlText(c))
    /\ (proxy_url = PyNone) <=> (envAuth \in {PyNone, PyStrV("")} \/ Step2Handled)
    /\ (proxy_url = PyNone) <=> (proxyAuth \in {PyNone, PyStrV("")})

\* C4 witness: PROXY_AUTH is set to the empty string and the URL is None
C4_Witness ==
  /\ prog = "main" /\ envAuth = PyStrV("") /\ ~envFails /\ InnerErrorIdx = {}
  /\ proxyAuth = PyStrV("") /\ proxy_url = PyNone

\* what json.loads gives for the texts of JsonInputs that are JSON
C5_Parsed(js) ==
  CASE js = "{}" -> EmptyDict
    [] js = "null" -> PyNone
    [] js = "[]" -> PyList(<<>>)
    [] js = "{\"name\": \"x\"}" -> PyDict(<< <<"name", PyStrV("x")>> >>)
    [] js = " {\"url\":null }" -> PyDict(<< <<"url", PyNone>> >>)
    [] OTHER -> PyDict(<< <<"url", PyStrV(CHOOSE u \in Urls : js = UrlInput(u))>> >>)
C5_NotJson == {"not json", "{\"url\": \"http://example.com/1\""}
\* the exception the caller of the latest facade invocation is left with
C5_Propagated ==
  IF prog = "main" THEN (IF pc = "m62" THEN e ELSE NoExc)
  ELSE (IF pc = "raised" THEN raisedExc ELSE NoExc)

FromTopHandler(i) == i \in TopErrorIdx \/ i \in FailedPushIdx

\* C6 (as stated): when the latest facade call of the normal flow failed with a
\* transport error, control is in the top-level handler (line 62 is next) with
\* that error bound: no inner layer has caught it and no further step ran.
C6_OnlyOutermostCatches ==
  (prog = "main" /\ rpc # <<>> /\ Last(rpc).outcome = "error"
     /\ ~FromTopHandler(Len(calls))) =>
    /\ pc = "m62"
    /\ e = RpcError(Len(rpc))

RaisedSinceStep2 ==
  \/ \E i \in InnerErrorIdx : \E j \in i..Len(calls) : calls[j].raised
  \/ (pc \in {"m62", "m68", "raised"} /\ e.type = "AttributeError")

MethodOf(fn) ==
  CASE fn = "Parameter.get_input_json_str" -> "GetInputJSONString"
    [] fn = "Parameter.get_input_json_dict" -> "GetInputJSONString"
    [] fn = "Result.push_data" -> "PushData"
    [] fn = "Result.set_table_header" -> "SetTableHeader"
    [] fn = "Log.debug" -> "Debug"
    [] fn = "Log.info" -> "Info"
    [] fn = "Log.warn" -> "Warn"
    [] OTHER -> "Error"
AckFacades ==
  {"Result.push_data", "Result.set_table_header", "Log.debug", "Log.info", "Log.warn",
   "Log.error"}

\* C8: every facade invocation made exactly one remote call, of its method;
\* the latest invocation of push_data, set_table_header or a Log method gave
\* its caller the host's acknowledgment, whatever its code, and raised only
\* on a transport error, after that one call.
C8_OneCallPerInvocation ==
  /\ Len(rpc) = Len(calls)
  /\ \A i \in 1..Len(calls) :
       /\ rpc[i].method = MethodOf(calls[i].fn)
       /\ calls[i].raised <=>
            (rpc[i].outcome = "error"
             \/ (calls[i].fn = "Parameter.get_input_json_dict" /\ jsonInput \in C5_NotJson))
  /\ (calls # <<>> /\ Last(calls).fn \in AckFacades) =>
       IF lastReply.kind = "reply"
       THEN ret = lastReply.reply /\ ret.t = "Response" /\ ~Last(calls).raised
       ELSE ret = RaisedRet(RpcError(Len(rpc)))

\* C8 witness: the host answered push_data with a non-success code and the
\* driver went on to the headers
C8_Witness ==
  /\ prog = "main" /\ pc = "m57"
  /\ Last(calls).fn = "Result.push_data"
  /\ ret.t = "Response" /\ ret.code # 0
  /\ Len(rpc) = Len(calls)

HeaderIdx == CallIdx("Result.set_table_header")

\* C9: in run(), set_table_header is called at most once, right after the push
\* of the success payload returned, and never once the top-level handler has
\* been entered.
C9_HeaderAfterPush ==
  prog = "main" =>
    /\ Cardinality(HeaderIdx) <= 1
    /\ \A h \in HeaderIdx :
         /\ h - 1 \in SuccessPushIdx
         /\ ~calls[h - 1].raised
         /\ \A i \in TopErrorIdx \cup FailedPushIdx : h < i
    /\ (pc \in {"m62", "m68"} /\ HeaderIdx = {}) =>
         \A i \in 1..Len(rpc) : rpc[i].method # "SetTableHeader"
    /\ \A i \in RpcIdx("SetTableHeader") : i \in HeaderIdx

\* C9 witness: the headers were set and run() returned
C9_Witness ==
  /\ prog = "main" /\ pc = "done"
  /\ Cardinality(HeaderIdx) = 1
  /\ Cardinality(SuccessPushIdx) = 1

\* C10 (as stated): run() calls push_data at most twice, and once the push of
\* the success payload has returned no failure payload is pushed.
C10_Original ==
  prog = "main" =>
    /\ Cardinality(PushIdx) <= 2
    /\ (\E p \in SuccessPushIdx : ~calls[p].raised) => FailedPushIdx = {}

\* a statement at or after the success push raised
RaisedSincePush == \E p \in SuccessPushIdx : \E j \in p..Len(calls) : calls[j].raised

\* C10 (amended): run() calls push_data at most twice, at most once with a
\* success payload and at most once with a failure payload, the success
\* payload first; both are pushed exactly when the success push or a call
\* after it (set_table_header, the final Log.info) raises and the Log.error of
\* the top-level handler returns.
C10_AtMostOneEach ==
  prog = "main" =>
    /\ Cardinality(PushIdx) <= 2
    /\ PushIdx = SuccessPushIdx \cup FailedPushIdx
    /\ Cardinality(SuccessPushIdx) <= 1
    /\ Cardinality(FailedPushIdx) <= 1
    /\ \A p \in SuccessPushIdx : \A f \in FailedPushIdx : p < f
    /\ (SuccessPushIdx # {} /\ FailedPushIdx # {}) =>
         (RaisedSincePush /\ \A i \in TopErrorIdx : ~calls[i].raised)
    /\ (Terminated /\ RaisedSincePush /\ \A i \in TopErrorIdx : ~calls[i].raised) =>
         (SuccessPushIdx # {} /\ FailedPushIdx # {})
    /\ ((\E p \in SuccessPushIdx : ~calls[p].raised) /\ FailedPushIdx # {}) =>
         \E j \in 1..Len(calls) :
           /\ calls[j].raised
           /\ \/ calls[j].fn = "Result.set_table_header"
              \/ calls[j].arg = PyStrV("Script execution completed")

\* C10 witness: set_table_header raised after the success push, and the
\* handler pushed the failure payload as well
C10_Witness ==
  /\ prog = "main" /\ pc = "raised"
  /\ \E h \in HeaderIdx : calls[h].raised
  /\ Cardinality(SuccessPushIdx) = 1 /\ Cardinality(FailedPushIdx) = 1

=============================================================================
